---- MODULE Spec2Model ----
(***************************************************************************)
(* A model of src/graph.rs: the vertex registry (Graph::add_vertex), the   *)
(* graph builder (build_graph) and the enumeration of repulsion pairs by   *)
(* Graph::cost and Graph::gradient, naive or through the Blocking grid.    *)
(*                                                                         *)
(* Spec        one Graph object: add_vertex calls and a build_graph run.   *)
(* SpecLayout  one evaluation point: cost and gradient on a position       *)
(*             vector loc under a Model m.                                 *)
(***************************************************************************)
EXTENDS Integers, Sequences, FiniteSets, Bags, TLC

\* The vertex names that occur (dataset identifiers and link targets).
Names == {"A", "B", "C"}
\* Largest number of records in the dataset collection.
MaxData == 2
\* Largest number of links of one record.
MaxLinks == 2

VARIABLES
    g,          \* the Graph: [n, values, edges]
    data,       \* build_graph: the records of `data`, in iteration order
    pc,         \* "new" | "api" | "dataset" | "link" | "returned"
    di,         \* build_graph: position of the outer loop (1-based)
    li,         \* build_graph: position of the inner loop (1-based)
    v1,         \* build_graph: index of the current record's vertex
    calls,      \* the last two add_vertex calls on g, oldest first
    loc,        \* the position vector of the evaluation
    m,          \* the Model of the evaluation
    cost_call,  \* what Graph::cost did: [state, pairs, blocking]
    grad_call   \* what Graph::gradient did: [state, pairs, blocking]

vars == <<g, data, pc, di, li, v1, calls, loc, m, cost_call, grad_call>>
graphVars == <<g, data, pc, di, li, v1, calls>>
layoutVars == <<loc, m, cost_call, grad_call>>

(***************************************************************************)
(* Graph and Edge                                                          *)
(***************************************************************************)

\* Graph::new(): n = 0, an empty map, no edges.
Graph_new == [n |-> 0, values |-> [x \in {} |-> 0], edges |-> <<>>]

\* Edge::new(from, to)
Edge_new(from, to) == [src |-> from, trg |-> to]

\* HashMap::insert(name, idx) on a map that may already hold name.
Insert(map, name, idx) ==
    [x \in (DOMAIN map) \cup {name} |-> IF x = name THEN idx ELSE map[x]]

\* A registration that does not look the name up first.
add_vertex_no_lookup(gr, name) ==
    [g   |-> [gr EXCEPT !.values = Insert(gr.values, name, gr.n), !.n = gr.n + 1],
     ret |-> gr.n]

\* A registration that stores the count after the increment.
add_vertex_store_after(gr, name) ==
    IF name \notin DOMAIN gr.values
    THEN [g   |-> [gr EXCEPT !.values = Insert(gr.values, name, gr.n + 1),
                             !.n = gr.n + 1],
          ret |-> gr.n]
    ELSE [g |-> gr, ret |-> gr.values[name]]

\* A registration that returns the count instead of the new index.
add_vertex_returns_n(gr, name) ==
    IF name \notin DOMAIN gr.values
    THEN [g   |-> [gr EXCEPT !.values = Insert(gr.values, name, gr.n),
                             !.n = gr.n + 1],
          ret |-> gr.n + 1]
    ELSE [g |-> gr, ret |-> gr.values[name]]

\* Graph::add_vertex(&mut self, name) -> usize: the graph after the call and
\* the index returned.
add_vertex(gr, name) ==
    IF name \notin DOMAIN gr.values
    THEN [g   |-> [gr EXCEPT !.values = Insert(gr.values, name, gr.n),
                             !.n = gr.n + 1],
          ret |-> (gr.n + 1) - 1]
    ELSE [g |-> gr, ret |-> gr.values[name]]

\* The record of one add_vertex call: what was asked, what came back, and the
\* vertex count before and after.
CallRecord(gr, name, r) ==
    [name |-> name, ret |-> r.ret, known |-> name \in DOMAIN gr.values,
     n0 |-> gr.n, n1 |-> r.g.n]

\* The log keeps the last two calls.
Logged(log, c) == IF Len(log) < 2 THEN Append(log, c) ELSE <<log[2], c>>

(***************************************************************************)
(* The dataset collection handed to build_graph                            *)
(***************************************************************************)

SeqsUpTo(S, k) == UNION {[1..len -> S] : len \in 0..k}

\* The link targets of one Dataset record, in order.
LinkSeqs == SeqsUpTo(Names, MaxLinks)

\* The identifiers of a collection, in some iteration order; they are unique.
IdentifierSeqs ==
    {ids \in SeqsUpTo(Names, MaxData) :
        \A i, j \in DOMAIN ids : i # j => ids[i] # ids[j]}

\* The values of the map `data` in iteration order: Dataset records with the
\* identifiers ids and the links ls.
Collection(ids, ls) ==
    [i \in DOMAIN ids |-> [identifier |-> ids[i], links |-> ls[i]]]

\* The layout variables while no evaluation is modelled.
NoCall == [state |-> "none", pairs |-> <<>>, blocking |-> [ok |-> FALSE]]
LayoutIdle ==
    /\ loc = <<>>
    /\ m = [n_blocks |-> 0]
    /\ cost_call = NoCall
    /\ grad_call = NoCall

Init ==
    /\ g = Graph_new
    /\ data = <<>>
    /\ pc = "new"
    /\ di = 0
    /\ li = 0
    /\ v1 = 0
    /\ calls = <<>>
    /\ LayoutIdle

\* A caller's g.add_vertex(name), on a graph it owns.
AddVertex ==
    /\ pc \in {"new", "api"}
    /\ \E name \in Names :
         LET r == add_vertex(g, name) IN
           /\ g' = r.g
           /\ calls' = Logged(calls, CallRecord(g, name, r))
    /\ pc' = "api"
    /\ UNCHANGED <<data, di, li, v1, layoutVars>>

\* build_graph(data): `let mut g = Graph::new()` and the start of the loop over
\* data.values().
BuildStart ==
    /\ pc = "new"
    /\ \E ids \in IdentifierSeqs :
         \E ls \in [DOMAIN ids -> LinkSeqs] : data' = Collection(ids, ls)
    /\ g' = Graph_new
    /\ di' = 1
    /\ pc' = "dataset"
    /\ UNCHANGED <<li, v1, calls, layoutVars>>

\* An outer loop that registers the record before looking at its links.
NextDataset_registers_all ==
    /\ pc = "dataset"
    /\ IF di > Len(data)
       THEN /\ pc' = "returned"
            /\ UNCHANGED <<g, di, li, v1, calls>>
       ELSE LET r == add_vertex(g, data[di].identifier) IN
              /\ g' = r.g
              /\ v1' = r.ret
              /\ calls' = Logged(calls, CallRecord(g, data[di].identifier, r))
              /\ li' = 1
              /\ pc' = "link"
              /\ UNCHANGED di
    /\ UNCHANGED <<data, layoutVars>>

\* One step of `for dataset in data.values()`: return g at the end; skip a
\* record with no links; else register the record's identifier as v1.
NextDataset ==
    /\ pc = "dataset"
    /\ IF di > Len(data)
       THEN /\ pc' = "returned"
            /\ UNCHANGED <<g, di, li, v1, calls>>
       ELSE IF data[di].links = <<>>
       THEN /\ di' = di + 1
            /\ UNCHANGED <<g, pc, li, v1, calls>>
       ELSE LET r == add_vertex(g, data[di].identifier) IN
              /\ g' = r.g
              /\ v1' = r.ret
              /\ calls' = Logged(calls, CallRecord(g, data[di].identifier, r))
              /\ li' = 1
              /\ pc' = "link"
              /\ UNCHANGED di
    /\ UNCHANGED <<data, layoutVars>>

\* The edges one link adds, when only the forward edge is pushed.
LinkEdges_forward_only(a, b) == <<Edge_new(a, b)>>

\* The edges one link adds: Edge::new(v1,v2) then Edge::new(v2,v1).
LinkEdges(a, b) == <<Edge_new(a, b), Edge_new(b, a)>>

\* One step of `for link in dataset.links.iter()`: register the target and push
\* the two edges; at the end go on with the next record.
NextLink ==
    /\ pc = "link"
    /\ IF li > Len(data[di].links)
       THEN /\ di' = di + 1
            /\ pc' = "dataset"
            /\ UNCHANGED <<g, li, v1, calls>>
       ELSE LET target == data[di].links[li]
                r == add_vertex(g, target)
                v2 == r.ret
            IN /\ g' = [r.g EXCEPT !.edges = r.g.edges \o LinkEdges(v1, v2)]
               /\ calls' = Logged(calls, CallRecord(g, target, r))
               /\ li' = li + 1
               /\ UNCHANGED <<di, pc, v1>>
    /\ UNCHANGED <<data, layoutVars>>

Next == AddVertex \/ BuildStart \/ NextDataset \/ NextLink

Spec == Init /\ [][Next]_vars

(***************************************************************************)
(* f64 positions                                                           *)
(*                                                                         *)
(* A finite f64 is held as an integer v, the value v * 2^-1074: a multiple *)
(* of the smallest positive f64.  On such values (below 2^-1022) IEEE-754  *)
(* addition is exact and a product or quotient is rounded to the nearest   *)
(* multiple, ties to even, which the operators below compute.              *)
(***************************************************************************)

\* Largest coordinate of a position, in units of the vector's scale.
MaxCoord == 1
\* Largest n_blocks of a Model.
MaxBlocks == 3
\* The scales of a position vector, in multiples of 2^-1074.
Scales == {1, 1000}

\* A finite f64, and a non-finite one: a NaN or an infinity.  The code looks at
\* a non-finite coordinate through is_finite alone.
Finite(v) == [kind |-> "finite", v |-> v]
NonFinite == [kind |-> "nonfinite", v |-> 0]

\* f64::is_finite
is_finite(x) == x.kind = "finite"

\* f64::abs of a finite value
abs(v) == IF v < 0 THEN -v ELSE v

\* The coordinates a position vector of scale s is drawn from.
Coordinates(s) ==
    {Finite(k * s) : k \in -MaxCoord .. MaxCoord} \cup {NonFinite}

\* The position vectors of nv vertices: length 2 * nv, interleaved (x, y).
Locs(nv) == UNION {[1 .. 2 * nv -> Coordinates(s)] : s \in Scales}

\* xs[i] with the code's 0-based index.
At(xs, i) == xs[i + 1]

\* `max *= 1.01` on a finite max >= 0.  The f64 nearest to 1.01 lies just
\* above 1.01, so a product halfway between two multiples rounds up.
mul_1_01(v) == (101 * v + 50) \div 100

\* p / q for finite p >= 0 and q > 0 whose quotient is again a multiple of
\* 2^-1074 (q a plain number, here `n_blocks as f64`): nearest, ties to even.
div_nearest_even(p, q) ==
    LET lo == p \div q
        r == p % q
    IN IF 2 * r < q THEN lo
       ELSE IF 2 * r > q THEN lo + 1
       ELSE IF lo % 2 = 0 THEN lo ELSE lo + 1

\* usize::MAX, what `as usize` gives for +infinity; it stands here as the
\* largest integer of the model, above any n_blocks.
UsizeMax == 2147483647

\* `((c + max) / block_size).floor() as usize` for the finite sum s = c + max.
\* A zero block_size gives NaN (0/0, cast to 0) or an infinity (cast
\* saturates); a negative quotient casts to 0.
cell_index(s, block_size) ==
    IF block_size = 0
    THEN (IF s > 0 THEN UsizeMax ELSE 0)
    ELSE IF s < 0 THEN 0 ELSE s \div block_size

(***************************************************************************)
(* Blocking                                                                *)
(***************************************************************************)

\* The loop of lines 210-215: the largest finite |x| of xs, or 0.0.
largest_finite_abs(xs) ==
    LET S == {abs(xs[i].v) : i \in {j \in DOMAIN xs : is_finite(xs[j])}}
    IN IF S = {} THEN 0 ELSE CHOOSE a \in S : \A b \in S : b <= a

\* A finiteness test that looks at the x coordinate only.
binned_positions_x_only(xs) ==
    {i \in 0 .. (Len(xs) \div 2) - 1 : is_finite(At(xs, i * 2))}

\* The positions Blocking::create bins: i in 0..xs.len()/2 with both
\* coordinates finite.
binned_positions(xs) ==
    {i \in 0 .. (Len(xs) \div 2) - 1 :
        is_finite(At(xs, i * 2)) /\ is_finite(At(xs, i * 2 + 1))}

\* Blocking::create(xs, n_blocks).  blocks[x][y] holds the entries
\* (i, xs[2i], xs[2i+1]) pushed to it, in the order of i.  ok is FALSE when a
\* push indexes blocks out of range, which panics.
Blocking_create(xs, n_blocks) ==
    LET max == mul_1_01(largest_finite_abs(xs))
        block_size == div_nearest_even(max * 2, n_blocks)
        cx(i) == cell_index(At(xs, i * 2).v + max, block_size)
        cy(i) == cell_index(At(xs, i * 2 + 1).v + max, block_size)
        all == [k \in 1 .. Len(xs) \div 2 |-> k - 1]
        in_cell(x, y, i) == i \in binned_positions(xs) /\ cx(i) = x /\ cy(i) = y
        entry(i) == <<i, At(xs, i * 2), At(xs, i * 2 + 1)>>
        cell(x, y) ==
            LET here(i) == in_cell(x, y, i)
                ids == SelectSeq(all, here)
            IN [k \in DOMAIN ids |-> entry(ids[k])]
    IN IF \A i \in binned_positions(xs) :
            cx(i) \in 0 .. n_blocks - 1 /\ cy(i) \in 0 .. n_blocks - 1
       THEN [ok |-> TRUE,
             blocks |-> [x \in 0 .. n_blocks - 1 |->
                            [y \in 0 .. n_blocks - 1 |-> cell(x, y)]],
             block_size |-> block_size, max |-> max, n_blocks |-> n_blocks]
       ELSE [ok |-> FALSE]

\* s when c holds, else nothing: an `if c { elems.extend(s) }`.
extend_if(c, s) == IF c THEN s ELSE <<>>

\* A query that reads the cell to the left once more at the end.
nearby_left_cell_twice(b, x, y) ==
    IF is_finite(x) /\ is_finite(y)
    THEN LET x_id == cell_index(x.v + b.max, b.block_size)
             y_id == cell_index(y.v + b.max, b.block_size)
         IN IF x_id \notin 0 .. b.n_blocks - 1 \/ y_id \notin 0 .. b.n_blocks - 1
            THEN [ok |-> FALSE, elems |-> <<>>]
            ELSE [ok |-> TRUE,
                  elems |->
                    b.blocks[x_id][y_id]
                    \o extend_if(x_id > 0,
                         extend_if(y_id > 0, b.blocks[x_id - 1][y_id - 1])
                         \o extend_if(y_id < b.n_blocks - 1,
                                      b.blocks[x_id - 1][y_id + 1])
                         \o b.blocks[x_id - 1][y_id])
                    \o extend_if(x_id < b.n_blocks - 1,
                         extend_if(y_id > 0, b.blocks[x_id + 1][y_id - 1])
                         \o extend_if(y_id < b.n_blocks - 1,
                                      b.blocks[x_id + 1][y_id + 1])
                         \o b.blocks[x_id + 1][y_id])
                    \o extend_if(y_id > 0, b.blocks[x_id][y_id - 1])
                    \o extend_if(y_id < b.n_blocks - 1, b.blocks[x_id][y_id + 1])
                    \o extend_if(x_id > 0, b.blocks[x_id - 1][y_id])]
    ELSE [ok |-> TRUE, elems |-> <<>>]

\* Blocking::nearby(&self, x, y): the entries of the query's own cell and of
\* the cells around it, in the order the code extends elems.  ok is FALSE when
\* blocks is indexed out of range.
nearby(b, x, y) ==
    IF is_finite(x) /\ is_finite(y)
    THEN LET x_id == cell_index(x.v + b.max, b.block_size)
             y_id == cell_index(y.v + b.max, b.block_size)
         IN IF x_id \notin 0 .. b.n_blocks - 1 \/ y_id \notin 0 .. b.n_blocks - 1
            THEN [ok |-> FALSE, elems |-> <<>>]
            ELSE [ok |-> TRUE,
                  elems |->
                    b.blocks[x_id][y_id]
                    \o extend_if(x_id > 0,
                         extend_if(y_id > 0, b.blocks[x_id - 1][y_id - 1])
                         \o extend_if(y_id < b.n_blocks - 1,
                                      b.blocks[x_id - 1][y_id + 1])
                         \o b.blocks[x_id - 1][y_id])
                    \o extend_if(x_id < b.n_blocks - 1,
                         extend_if(y_id > 0, b.blocks[x_id + 1][y_id - 1])
                         \o extend_if(y_id < b.n_blocks - 1,
                                      b.blocks[x_id + 1][y_id + 1])
                         \o b.blocks[x_id + 1][y_id])
                    \o extend_if(y_id > 0, b.blocks[x_id][y_id - 1])
                    \o extend_if(y_id < b.n_blocks - 1, b.blocks[x_id][y_id + 1])]
    ELSE [ok |-> TRUE, elems |-> <<>>]

(***************************************************************************)
(* The repulsion pairs of Graph::cost and Graph::gradient                  *)
(*                                                                         *)
(* An evaluation is recorded by the ordered pairs <<v1, v2>> it hands to   *)
(* repulse_cost (repulse_grad), in the order of the loops.  The sums over  *)
(* the pairs, the spring term and the canvas term are real-valued and take *)
(* no part in the choice of pairs.                                         *)
(***************************************************************************)

\* Largest vertex count of a graph that is laid out.
MaxVertices == 2

\* The names of the vertices of a graph that is laid out, in index order.
NameSeq == <<"A", "B", "C", "D">>

\* The candidates (v2_id, v2_x, v2_y) of v1 that pass `v1 != v2_id`.
pairs_of(v, elems) ==
    LET other(e) == e[1] # v
        kept == SelectSeq(elems, other)
    IN [k \in DOMAIN kept |-> <<v, kept[k][1]>>]

\* The loops `for v1 in 0..self.n { for v2 in 0..self.n { if v1 != v2` of
\* lines 79-87 and 129-137.
all_pairs(nv) ==
    LET grid == [k \in 1 .. nv * nv |-> <<(k - 1) \div nv, (k - 1) % nv>>]
        distinct(pr) == pr[1] # pr[2]
    IN SelectSeq(grid, distinct)

\* Lines 69-77 of cost from v1 = v on: the pairs scanned, and whether every
\* nearby() call returned.
RECURSIVE cost_blocked(_, _, _, _)
cost_blocked(gr, l, blocking, v) ==
    IF v >= gr.n THEN [ok |-> TRUE, pairs |-> <<>>]
    ELSE LET near == nearby(blocking, At(l, v * 2), At(l, v * 2 + 1)) IN
           IF ~near.ok THEN [ok |-> FALSE, pairs |-> <<>>]
           ELSE LET rest == cost_blocked(gr, l, blocking, v + 1) IN
                  [ok |-> rest.ok, pairs |-> pairs_of(v, near.elems) \o rest.pairs]

\* Lines 118-127 of gradient from v1 = v on.
RECURSIVE gradient_blocked(_, _, _, _)
gradient_blocked(gr, l, blocking, v) ==
    IF v >= gr.n THEN [ok |-> TRUE, pairs |-> <<>>]
    ELSE LET near == nearby(blocking, At(l, v * 2), At(l, v * 2 + 1)) IN
           IF ~near.ok THEN [ok |-> FALSE, pairs |-> <<>>]
           ELSE LET rest == gradient_blocked(gr, l, blocking, v + 1) IN
                  [ok |-> rest.ok, pairs |-> pairs_of(v, near.elems) \o rest.pairs]

\* Graph::cost(&self, loc, m), lines 66-88: the pairs given to repulse_cost.
\* state is "panic" when the call does not return.
Graph_cost(gr, l, mo) ==
    IF mo.n_blocks > 1
    THEN LET blocking == Blocking_create(l, mo.n_blocks) IN
           IF ~blocking.ok
           THEN [state |-> "panic", pairs |-> <<>>, blocking |-> blocking]
           ELSE LET scan == cost_blocked(gr, l, blocking, 0) IN
                  [state |-> IF scan.ok THEN "done" ELSE "panic",
                   pairs |-> scan.pairs, blocking |-> blocking]
    ELSE [state |-> "done", pairs |-> all_pairs(gr.n), blocking |-> [ok |-> FALSE]]

\* A gradient that always takes the naive path.
Graph_gradient_always_naive(gr, l, mo) ==
    [state |-> "done", pairs |-> all_pairs(gr.n), blocking |-> [ok |-> FALSE]]

\* Graph::gradient(&self, loc, m), lines 116-138: the pairs given to
\* repulse_grad.
Graph_gradient(gr, l, mo) ==
    IF mo.n_blocks > 1
    THEN LET blocking == Blocking_create(l, mo.n_blocks) IN
           IF ~blocking.ok
           THEN [state |-> "panic", pairs |-> <<>>, blocking |-> blocking]
           ELSE LET scan == gradient_blocked(gr, l, blocking, 0) IN
                  [state |-> IF scan.ok THEN "done" ELSE "panic",
                   pairs |-> scan.pairs, blocking |-> blocking]
    ELSE [state |-> "done", pairs |-> all_pairs(gr.n), blocking |-> [ok |-> FALSE]]

\* The graph after add_vertex of the first k names of NameSeq.
RECURSIVE Registered(_)
Registered(k) ==
    IF k = 0 THEN Graph_new ELSE add_vertex(Registered(k - 1), NameSeq[k]).g

\* A graph of up to MaxVertices vertices, owned by the caller, not yet
\* evaluated.
InitLayout ==
    /\ \E k \in 0 .. MaxVertices : g = Registered(k)
    /\ data = <<>>
    /\ pc = "api"
    /\ di = 0
    /\ li = 0
    /\ v1 = 0
    /\ calls = <<>>
    /\ LayoutIdle

\* The optimizer evaluates g.cost(&loc, &m) at a point loc of length 2n.
Cost ==
    /\ cost_call.state = "none"
    /\ \E l \in Locs(g.n) : \E nb \in 0 .. MaxBlocks :
         /\ loc' = l
         /\ m' = [n_blocks |-> nb]
         /\ cost_call' = Graph_cost(g, l, [n_blocks |-> nb])
    /\ UNCHANGED <<graphVars, grad_call>>

\* The optimizer evaluates g.gradient(&loc, &m) at the same point.
Gradient ==
    /\ cost_call.state # "none"
    /\ grad_call.state = "none"
    /\ grad_call' = Graph_gradient(g, loc, m)
    /\ UNCHANGED <<graphVars, loc, m, cost_call>>

NextLayout == Cost \/ Gradient

SpecLayout == InitLayout /\ [][NextLayout]_vars

(***************************************************************************)
(* Properties of the vertex registry and of build_graph                    *)
(***************************************************************************)

\* C1: two add_vertex calls in a row with the same name return the same
\* index, and across the two calls n grows by 1 when the name was not
\* registered before the first call and by 0 when it was.
C1_AddVertexIdempotent ==
    (Len(calls) = 2 /\ calls[1].name = calls[2].name) =>
        /\ calls[1].ret = calls[2].ret
        /\ calls[2].n1 - calls[1].n0 = (IF calls[1].known THEN 0 ELSE 1)

\* A new name was registered by the first of two calls with that name.
C1_Witness ==
    /\ Len(calls) = 2
    /\ calls[1].name = calls[2].name
    /\ ~calls[1].known
    /\ calls[2].n1 = calls[1].n0 + 1

\* The map is a bijection between the registered names and 0..n-1.
VertexBijection ==
    /\ \A a, b \in DOMAIN g.values : g.values[a] = g.values[b] => a = b
    /\ {g.values[a] : a \in DOMAIN g.values} = 0 .. (g.n - 1)
    /\ Cardinality(DOMAIN g.values) = g.n

\* A step keeps every assigned index and never lowers n.
IndexStable ==
    /\ g'.n >= g.n
    /\ \A a \in DOMAIN g.values :
         a \in DOMAIN g'.values /\ g'.values[a] = g.values[a]

\* C2: from Graph::new() on, the name->index map is a bijection between the
\* registered names and 0..n-1, and an index once assigned never changes
\* (nothing is removed, n never decreases).
C2_BijectionForever == [](VertexBijection) /\ [][IndexStable]_vars

\* Three names were registered by a caller's add_vertex calls.
C2_Witness == pc = "api" /\ g.n = 3 /\ data = <<>>

\* The records without links.
NoLinkRecords == {i \in DOMAIN data : data[i].links = <<>>}

Targeted(name) ==
    \E i \in DOMAIN data : \E k \in DOMAIN data[i].links : data[i].links[k] = name

\* C3 as stated: in the graph build_graph returns, no record with an empty
\* links sequence has an index, also when another record links to it.
C3_NoLinkRecordNeverVertex ==
    pc = "returned" =>
        \A i \in NoLinkRecords : data[i].identifier \notin DOMAIN g.values

\* C3: in the graph build_graph returns, a record with no links has an index
\* exactly when some record's link targets its identifier; build_graph never
\* registers it on its own account.
C3_NoLinkRecordVertexIffTargeted ==
    pc = "returned" =>
        \A i \in NoLinkRecords :
            data[i].identifier \in DOMAIN g.values <=> Targeted(data[i].identifier)

\* A build has returned with a record without links that a link targets, and
\* that record's identifier is registered.
C3_Witness ==
    /\ pc = "returned"
    /\ \E i \in NoLinkRecords :
         Targeted(data[i].identifier) /\ data[i].identifier \in DOMAIN g.values

\* The links of the first k records, as <<identifier, target>>, in order.
RECURSIVE LinksOf(_, _)
LinksOf(d, k) ==
    IF k = 0 THEN <<>>
    ELSE LinksOf(d, k - 1) \o
         [j \in DOMAIN d[k].links |-> <<d[k].identifier, d[k].links[j]>>]

\* C4: the graph build_graph returns has two edges per link, src->trg at
\* 2k-1 and trg->src at 2k for the k-th link in iteration order, repeated
\* links and self-links included.
C4_TwoEdgesPerLink ==
    pc = "returned" =>
        LET links == LinksOf(data, Len(data)) IN
          /\ Len(g.edges) = 2 * Len(links)
          /\ \A k \in DOMAIN links :
               LET a == g.values[links[k][1]]
                   b == g.values[links[k][2]]
               IN /\ g.edges[2 * k - 1] = Edge_new(a, b)
                  /\ g.edges[2 * k] = Edge_new(b, a)

\* A build has returned for a record that links twice to the same target.
C4_Witness ==
    /\ pc = "returned"
    /\ \E i \in DOMAIN data :
         /\ Len(data[i].links) = 2
         /\ data[i].links[1] = data[i].links[2]
    /\ Len(g.edges) >= 4

\* C5: in every state of build_graph and in the graph it returns, both
\* endpoints of every edge are below the vertex count n.
C5_EdgeEndpointsBelowN ==
    \A k \in DOMAIN g.edges : g.edges[k].src < g.n /\ g.edges[k].trg < g.n

\* build_graph is inside a record's links and has pushed a pair of edges.
C5_Witness == pc = "link" /\ li > 1 /\ Len(g.edges) >= 2

(***************************************************************************)
(* Properties of the repulsion pairs and of the Blocking grid              *)
(***************************************************************************)

Vertices == 0 .. g.n - 1

\* How often the ordered pair pr occurs in a scan.
Count(pairs, pr) == Cardinality({k \in DOMAIN pairs : pairs[k] = pr})

\* The position of vertex v has two finite coordinates.
FinitePosition(v) == is_finite(At(loc, v * 2)) /\ is_finite(At(loc, v * 2 + 1))

\* How often vertex b is among the candidates nearby() gives for vertex a.
Candidates(blocking, a, b) ==
    LET elems == nearby(blocking, At(loc, a * 2), At(loc, a * 2 + 1)).elems
    IN Cardinality({k \in DOMAIN elems : elems[k][1] = b})

\* C6: cost and gradient, called at the same loc under the same model, hand
\* the same multiset of ordered pairs to repulse_cost and to repulse_grad:
\* every ordered pair of distinct vertices once when n_blocks <= 1, the
\* nearby() candidates of a grid built from loc when n_blocks > 1.
C6_SamePairEnumeration ==
    grad_call.state # "none" =>
        /\ cost_call.state = grad_call.state
        /\ \A a, b \in Vertices :
             Count(cost_call.pairs, <<a, b>>) = Count(grad_call.pairs, <<a, b>>)
        /\ m.n_blocks <= 1 =>
             \A a, b \in Vertices :
                Count(grad_call.pairs, <<a, b>>) = (IF a # b THEN 1 ELSE 0)
        /\ m.n_blocks > 1 =>
             /\ cost_call.blocking = Blocking_create(loc, m.n_blocks)
             /\ grad_call.blocking = Blocking_create(loc, m.n_blocks)
             /\ grad_call.state = "done" =>
                  \A a, b \in Vertices :
                     Count(grad_call.pairs, <<a, b>>) =
                        (IF a # b THEN Candidates(grad_call.blocking, a, b) ELSE 0)

\* cost and gradient both went through the grid and scanned a pair.
C6_Witness ==
    /\ m.n_blocks > 1
    /\ grad_call.state = "done"
    /\ cost_call.pairs # <<>>
    /\ grad_call.pairs # <<>>

\* block_size as Blocking::create computes it for loc.
BlockSize == div_nearest_even(mul_1_01(largest_finite_abs(loc)) * 2, m.n_blocks)

\* The square of the Euclidean distance of two finite positions.
Distance2(a, b) ==
    LET dx == At(loc, a * 2).v - At(loc, b * 2).v
        dy == At(loc, a * 2 + 1).v - At(loc, b * 2 + 1).v
    IN dx * dx + dy * dy

\* The cell Blocking::create puts vertex v in: <<x, y>>.
CellOf(v) ==
    LET max == mul_1_01(largest_finite_abs(loc))
    IN <<cell_index(At(loc, v * 2).v + max, BlockSize),
         cell_index(At(loc, v * 2 + 1).v + max, BlockSize)>>

Adjacent(c, d) ==
    /\ c[1] - d[1] \in {-1, 0, 1}
    /\ c[2] - d[2] \in {-1, 0, 1}

NonFinitePosition(v) == ~FinitePosition(v)

\* Vertex v is in some cell of the grid.
InSomeCell(blocking, v) ==
    \E x, y \in 0 .. blocking.n_blocks - 1 :
        \E k \in DOMAIN blocking.blocks[x][y] : blocking.blocks[x][y][k][1] = v

\* The number of scanned pairs vertex v is part of.
PairsWith(pairs, v) ==
    Cardinality({k \in DOMAIN pairs : pairs[k][1] = v \/ pairs[k][2] = v})

\* What C8 says of one evaluation.
NonFiniteExcluded(call) ==
    \A v \in Vertices :
        NonFinitePosition(v) =>
            /\ m.n_blocks > 1 =>
                 /\ PairsWith(call.pairs, v) = 0
                 /\ call.blocking.ok =>
                      /\ ~InSomeCell(call.blocking, v)
                      /\ nearby(call.blocking, At(loc, v * 2),
                                At(loc, v * 2 + 1)).elems = <<>>
            /\ m.n_blocks <= 1 => PairsWith(call.pairs, v) = 2 * (g.n - 1)

\* C8: with n_blocks > 1 a vertex with a non-finite coordinate is in no
\* cell, its own query is empty and it is part of no repulsion pair; with
\* n_blocks <= 1 it is part of all 2(n-1) ordered pairs with the others.
C8_NonFiniteOnlyInNaivePath ==
    /\ cost_call.state # "none" => NonFiniteExcluded(cost_call)
    /\ grad_call.state # "none" => NonFiniteExcluded(grad_call)

\* A grid was built for a vertex with a non-finite coordinate beside a
\* vertex that was binned.
C8_Witness ==
    /\ m.n_blocks > 1
    /\ cost_call.state = "done"
    /\ \E v, w \in Vertices :
         /\ NonFinitePosition(v)
         /\ FinitePosition(w)
         /\ InSomeCell(cost_call.blocking, w)

\* C9: with n_blocks > 1 the cell index of every finite position lies in
\* 0..n_blocks-1 on both axes, so neither Blocking::create nor
\* Blocking::nearby indexes the grid out of range and the evaluation returns.
C9_CellIndicesInRange ==
    (cost_call.state # "none" /\ m.n_blocks > 1) =>
        /\ cost_call.state = "done"
        /\ \A v \in Vertices :
             FinitePosition(v) =>
                /\ CellOf(v)[1] \in 0 .. m.n_blocks - 1
                /\ CellOf(v)[2] \in 0 .. m.n_blocks - 1

\* What C10 says of one evaluation.
ScannedOnceAndSymmetric(call) ==
    \A a, b \in Vertices :
        /\ Count(call.pairs, <<a, b>>) <= 1
        /\ Count(call.pairs, <<a, b>>) = Count(call.pairs, <<b, a>>)
        /\ Count(call.pairs, <<a, a>>) = 0

\* C10: with n_blocks > 1, in one cost or gradient call every ordered pair
\* of distinct vertices is scanned at most once, (a,b) is scanned exactly
\* when (b,a) is, and no vertex is paired with itself.
C10_BlockedScanSymmetric ==
    m.n_blocks > 1 =>
        /\ cost_call.state # "none" => ScannedOnceAndSymmetric(cost_call)
        /\ grad_call.state # "none" => ScannedOnceAndSymmetric(grad_call)

\* Two vertices in different, adjacent cells were scanned as each other's
\* candidate.
C10_Witness ==
    /\ m.n_blocks > 1
    /\ cost_call.state = "done"
    /\ \E a, b \in Vertices :
         /\ a # b
         /\ FinitePosition(a) /\ FinitePosition(b)
         /\ CellOf(a) # CellOf(b)
         /\ Count(cost_call.pairs, <<a, b>>) = 1
         /\ Count(cost_call.pairs, <<b, a>>) = 1

====
